---- MODULE Spec2Model ----
(***************************************************************************)
(* Reverse-mode automatic differentiation pass SimpleAD                    *)
(* (src/src/relax/transform/utils.cc, second half: simple_ad.cc).          *)
(*                                                                         *)
(* One behaviour of the model is one call of relax::SimpleAD on an input   *)
(* (module, function, requires-gradient list) drawn in Init.  The actions  *)
(* are the consecutive phases of SimpleAD / SimpleADMutator::FuncTransform *)
(* with one step per loop iteration.  A fatal error (ICHECK / LOG(FATAL))  *)
(* moves the call to pc = "fatal" and nothing runs afterwards.             *)
(*                                                                         *)
(* Expression nodes are compared by identity in the source (Map<Expr,Var>  *)
(* and std::set<Expr> hash and order by pointer).  Every node the pass     *)
(* allocates therefore carries the allocation id it was created with, so   *)
(* that equality of two model values is identity of the two nodes.         *)
(***************************************************************************)
EXTENDS Integers, Sequences, FiniteSets, Bags, TLC

\* ------------------------------------------------------------------------
\* Bounds of the explored inputs.
MaxParams == 2
MaxBindings == 3
MaxG == 2

\* ------------------------------------------------------------------------
\* Struct info (shape + checked type) of a value.
TensorType(nd, shapeKnown) ==
  [k |-> "tensor", ndim |-> nd, known |-> shapeKnown, fields |-> <<>>]

TupleType(fs) == [k |-> "tuple", ndim |-> 0, known |-> TRUE, fields |-> fs]

NoType == [k |-> "none", ndim |-> 0, known |-> FALSE, fields |-> <<>>]

ScalarT == TensorType(0, TRUE)

MatrixT == TensorType(2, TRUE)

UnknownT == TensorType(0, FALSE)

PairT == TupleType(<<ScalarT, ScalarT>>)

NestedT == TupleType(<<PairT, ScalarT>>)

\* IsScalarTensor(sinfo): a tensor whose shape is a ShapeExpr with no values.
IsScalarTensor(sinfo) ==
  IF sinfo.k # "tensor" THEN FALSE
  ELSE IF ~sinfo.known THEN FALSE
  ELSE sinfo.ndim = 0

\* ------------------------------------------------------------------------
\* Expression nodes.  All nodes are records over the same fields.
\*   k      node kind: var | tuple | getitem | call | const | none
\*   name   variable name (var)            df   DataflowVar? (var)
\*   op     operator name (call)           id   allocation id (pass-made nodes)
\*   index  projection index (getitem)     args fields / arguments / tuple
\*   ty     shape and dtype argument of a zeros / ones call
Node(k, name, df, op, id, index, args, ty) ==
  [k |-> k, name |-> name, df |-> df, op |-> op, id |-> id, index |-> index,
   args |-> args, ty |-> ty]

Var(name, isDataflow) == Node("var", name, isDataflow, "", <<>>, 0, <<>>, NoType)

Tuple(id, fields) == Node("tuple", "", FALSE, "", id, 0, fields, NoType)

TupleGetItem(tuple, index) ==
  Node("getitem", "", FALSE, "", <<>>, index, <<tuple>>, NoType)

Call(op, id, args, ty) == Node("call", "", FALSE, op, id, 0, args, ty)

Constant == Node("const", "", FALSE, "", <<>>, 0, <<>>, NoType)

NoExpr == Node("none", "", FALSE, "", <<>>, 0, <<>>, NoType)

EmptyMap == [x \in {} |-> NoExpr]

\* Map::Set
MapSet(map, key, value) == (key :> value) @@ map

\* ------------------------------------------------------------------------
\* A mutator m is the record of the members of SimpleADMutator (see Mut).
\* A fatal error is kept in m.err; no later step changes m.
Fatal(m, msg) == IF m.err # "" THEN m ELSE [m EXCEPT !.err = msg]

FatalExpr(msg) == Node("fatal", msg, FALSE, "", <<>>, 0, <<>>, NoType)

\* CreateAdjointVar taking the kind from the original variable
CreateAdjointVarSameKind(m, v, is_dataflow_var) ==
  IF v.name \in DOMAIN m.adjoint_var_map THEN m
  ELSE [m EXCEPT !.adjoint_var_map = MapSet(@, v.name, Var(v.name \o "_adjoint", v.df))]

\* void CreateAdjointVar(const Var& v, bool is_dataflow_var)
CreateAdjointVar(m, v, is_dataflow_var) ==
  IF v.name \in DOMAIN m.adjoint_var_map THEN m
  ELSE [m EXCEPT !.adjoint_var_map =
          MapSet(@, v.name, Var(v.name \o "_adjoint", is_dataflow_var))]

\* DoAdd without the replacement of src2 by the variable it is bound to
RECURSIVE DoAddNoIntern(_, _, _, _)
DoAddNoIntern(m, src1, src2, id) ==
  IF src1 \in m.zeros_tracker_ THEN src2
  ELSE IF src2 \in m.zeros_tracker_ THEN src1
  ELSE IF src1.k = "tuple" THEN
    IF src2.k = "tuple" THEN
      IF Len(src1.args) # Len(src2.args) THEN FatalExpr("size of tuple not match")
      ELSE
        LET result == [i \in 1..Len(src1.args) |->
                         DoAddNoIntern(m, src1.args[i], src2.args[i], Append(id, i))]
            bad == {i \in 1..Len(result) : result[i].k = "fatal"}
        IN IF bad # {} THEN result[CHOOSE i \in bad : \A j \in bad : i <= j]
           ELSE Tuple(id, result)
    ELSE FatalExpr("Type not match: src1 and src2 should be both tuple")
  ELSE Call("add", id, <<src1, src2>>, NoType)

\* DoAdd taking for a zero every node structurally equal to a tracked zero
RECURSIVE DoAddStructuralZero(_, _, _, _)
DoAddStructuralZero(m, src1, src2, id) ==
  LET isZero(e) == \E z \in m.zeros_tracker_ : [e EXCEPT !.id = <<>>] = [z EXCEPT !.id = <<>>]
  IN
  IF isZero(src1) THEN src2
  ELSE IF isZero(src2) THEN src1
  ELSE IF src1.k = "tuple" THEN
    IF src2.k = "tuple" THEN
      IF Len(src1.args) # Len(src2.args) THEN FatalExpr("size of tuple not match")
      ELSE
        LET result == [i \in 1..Len(src1.args) |->
                         DoAddStructuralZero(m, src1.args[i], src2.args[i], Append(id, i))]
            bad == {i \in 1..Len(result) : result[i].k = "fatal"}
        IN IF bad # {} THEN result[CHOOSE i \in bad : \A j \in bad : i <= j]
           ELSE Tuple(id, result)
    ELSE FatalExpr("Type not match: src1 and src2 should be both tuple")
  ELSE IF src2 \in DOMAIN m.adjoint_binding_
    THEN Call("add", id, <<src1, m.adjoint_binding_[src2]>>, NoType)
    ELSE Call("add", id, <<src1, src2>>, NoType)

\* DoAdd replacing src1 too by the variable it is bound to
RECURSIVE DoAddInternBoth(_, _, _, _)
DoAddInternBoth(m, src1, src2, id) ==
  LET bound(e) == IF e \in DOMAIN m.adjoint_binding_ THEN m.adjoint_binding_[e] ELSE e
  IN
  IF src1 \in m.zeros_tracker_ THEN src2
  ELSE IF src2 \in m.zeros_tracker_ THEN src1
  ELSE IF src1.k = "tuple" THEN
    IF src2.k = "tuple" THEN
      IF Len(src1.args) # Len(src2.args) THEN FatalExpr("size of tuple not match")
      ELSE
        LET result == [i \in 1..Len(src1.args) |->
                         DoAddInternBoth(m, src1.args[i], src2.args[i], Append(id, i))]
            bad == {i \in 1..Len(result) : result[i].k = "fatal"}
        IN IF bad # {} THEN result[CHOOSE i \in bad : \A j \in bad : i <= j]
           ELSE Tuple(id, result)
    ELSE FatalExpr("Type not match: src1 and src2 should be both tuple")
  ELSE Call("add", id, <<bound(src1), bound(src2)>>, NoType)

\* Expr DoAdd(const Expr& src1, const Expr& src2); id names the node built.
RECURSIVE DoAdd(_, _, _, _)
DoAdd(m, src1, src2, id) ==
  IF src1 \in m.zeros_tracker_ THEN src2
  ELSE IF src2 \in m.zeros_tracker_ THEN src1
  ELSE IF src1.k = "tuple" THEN
    IF src2.k = "tuple" THEN
      IF Len(src1.args) # Len(src2.args) THEN FatalExpr("size of tuple not match")
      ELSE
        LET result == [i \in 1..Len(src1.args) |->
                         DoAdd(m, src1.args[i], src2.args[i], Append(id, i))]
            bad == {i \in 1..Len(result) : result[i].k = "fatal"}
        IN IF bad # {} THEN result[CHOOSE i \in bad : \A j \in bad : i <= j]
           ELSE Tuple(id, result)
    ELSE FatalExpr("Type not match: src1 and src2 should be both tuple")
  ELSE IF src2 \in DOMAIN m.adjoint_binding_
    THEN Call("add", id, <<src1, m.adjoint_binding_[src2]>>, NoType)
    ELSE Call("add", id, <<src1, src2>>, NoType)

\* DoAddInTuple adding into the field after the one addressed
DoAddInNextField(m, origin, index, increment, id) ==
  LET ret == [i \in 1..Len(origin.args) |->
                IF i - 1 = (index + 1) % Len(origin.args)
                  THEN DoAdd(m, origin.args[i], increment, Append(id, i))
                  ELSE origin.args[i]]
      bad == {i \in 1..Len(ret) : ret[i].k = "fatal"}
  IN IF bad # {} THEN ret[CHOOSE i \in bad : TRUE] ELSE Tuple(id, ret)

\* Tuple DoAddInTuple(const Tuple& origin, int index, const Expr& increment)
\* (index is 0-based as in the source)
DoAddInTuple(m, origin, index, increment, id) ==
  LET ret == [i \in 1..Len(origin.args) |->
                IF i - 1 = index THEN DoAdd(m, origin.args[i], increment, Append(id, i))
                ELSE origin.args[i]]
      bad == {i \in 1..Len(ret) : ret[i].k = "fatal"}
  IN IF bad # {} THEN ret[CHOOSE i \in bad : TRUE] ELSE Tuple(id, ret)

\* Tuple BuildEmptyNestedTupleExpr(const Tuple& shape, const TupleType& type):
\* the tuple literal; its zeros leaves are the nodes ZeroLeaves returns.
RECURSIVE BuildEmptyNestedTupleExpr(_, _)
BuildEmptyNestedTupleExpr(sinfo, id) ==
  LET ret == [i \in 1..Len(sinfo.fields) |->
                LET f == sinfo.fields[i] IN
                IF f.k = "tuple" THEN BuildEmptyNestedTupleExpr(f, Append(id, i))
                ELSE IF f.k = "tensor" /\ f.known
                  THEN Call("zeros", Append(id, i), <<>>, f)
                  ELSE FatalExpr("Unsupported emtpy expr")]
      bad == {i \in 1..Len(ret) : ret[i].k = "fatal"}
  IN IF bad # {} THEN ret[CHOOSE i \in bad : \A j \in bad : i <= j]
     ELSE Tuple(id, ret)

\* the nodes BuildEmptyNestedTupleExpr put into zeros_tracker_ while building e
RECURSIVE ZeroLeaves(_)
ZeroLeaves(e) ==
  IF e.k = "tuple" THEN UNION {ZeroLeaves(e.args[i]) : i \in 1..Len(e.args)}
  ELSE IF e.k = "call" /\ e.op = "zeros" THEN {e}
  ELSE {}

\* One accumulation step, for the history: the contribution inc to the
\* variable named base (to its field index for a projection, index -1
\* otherwise) was added to the slot holding acc and the slot now holds
\* stored; var is the variable inc was bound to at that time (NoExpr if
\* none).
LogEntry(m, base, index, how, inc, acc, stored) ==
  [base |-> base, index |-> index, how |-> how, inc |-> inc,
   var |-> IF inc \in DOMAIN m.adjoint_binding_ THEN m.adjoint_binding_[inc] ELSE NoExpr,
   accZero |-> acc \in m.zeros_tracker_,
   acc |-> acc, stored |-> stored]

\* UpdateExprMap on a Var storing the increment over the accumulated adjoint
UpdateVarOverwrite(m, v, increment) ==
  LET stored == IF increment \in DOMAIN m.adjoint_binding_
                  THEN m.adjoint_binding_[increment] ELSE increment
      how == IF v.name \in DOMAIN m.adjoint_expr_map THEN "add" ELSE "first"
      acc == IF how = "add" THEN m.adjoint_expr_map[v.name] ELSE NoExpr
  IN [m EXCEPT !.adjoint_expr_map = MapSet(@, v.name, stored),
               !.log = Append(@, LogEntry(m, v.name, -1, how, increment, acc, stored))]

\* void UpdateExprMap(const Expr& base, const Expr& increment), base a Var
UpdateVar(m, v, increment) ==
  IF v.name \notin DOMAIN m.adjoint_expr_map THEN
    LET stored == IF increment \in DOMAIN m.adjoint_binding_
                    THEN m.adjoint_binding_[increment] ELSE increment
    IN [m EXCEPT !.adjoint_expr_map = MapSet(@, v.name, stored),
                 !.log = Append(@, LogEntry(m, v.name, -1, "first", increment, NoExpr, stored))]
  ELSE
    LET updated == DoAdd(m, m.adjoint_expr_map[v.name], increment, <<m.nid>>)
    IN IF updated.k = "fatal" THEN Fatal(m, updated.name)
       ELSE [m EXCEPT !.adjoint_expr_map = MapSet(@, v.name, updated),
                      !.nid = @ + 1,
                      !.log = Append(@, LogEntry(m, v.name, -1, "add", increment,
                                                 m.adjoint_expr_map[v.name], updated))]

\* void UpdateExprMap(const Expr& base, const Expr& increment), base a
\* TupleGetItem; sinfo maps a variable to its struct info.
UpdateTupleGetItem(m, sinfo, node, increment) ==
  LET v == node.args[1] IN
  IF v.k # "var" THEN Fatal(m, "Tuple of TupleGetItem must be binded to a Var")
  ELSE IF sinfo[v.name].k # "tuple"
    THEN Fatal(m, "Type of tuple of TupleGetItem must be tuple")
  ELSE
    LET init == BuildEmptyNestedTupleExpr(sinfo[v.name], <<m.nid>>)
        fresh == v.name \notin DOMAIN m.adjoint_expr_map
        m1 == IF ~fresh THEN m
              ELSE IF init.k = "fatal" THEN Fatal(m, init.name)
              ELSE [m EXCEPT !.adjoint_expr_map = MapSet(@, v.name, init),
                             !.zeros_tracker_ = @ \cup ZeroLeaves(init),
                             !.nid = @ + 1]
    IN IF m1.err # "" THEN m1
       ELSE IF m1.adjoint_expr_map[v.name].k # "tuple"
         THEN Fatal(m1, "adjoint of var is not tuple")
       ELSE
         LET origin == m1.adjoint_expr_map[v.name]
             updated == DoAddInTuple(m1, origin, node.index, increment, <<m1.nid>>)
             slot == IF node.index + 1 \in 1..Len(origin.args)
                       THEN origin.args[node.index + 1] ELSE NoExpr
             field == IF updated.k = "tuple" /\ node.index + 1 \in 1..Len(updated.args)
                        THEN updated.args[node.index + 1] ELSE NoExpr
         IN IF updated.k = "fatal" THEN Fatal(m1, updated.name)
            ELSE [m1 EXCEPT !.adjoint_expr_map = MapSet(@, v.name, updated),
                            !.nid = @ + 1,
                            !.log = Append(@, LogEntry(m1, v.name, node.index, "field", increment,
                                                       slot, field))]

\* void UpdateExprMap(const Expr& base, const Expr& increment)
RECURSIVE UpdateExprMap(_, _, _, _)
RECURSIVE UpdateFields(_, _, _, _, _)
UpdateExprMap(m, sinfo, base, increment) ==
  IF m.err # "" THEN m
  ELSE IF base.k = "var" THEN UpdateVar(m, base, increment)
  ELSE IF base.k = "tuple" THEN
    IF increment.k = "tuple" THEN UpdateFields(m, sinfo, base.args, increment.args, 1)
    ELSE Fatal(m, "base and increment should be both tuple")
  ELSE IF base.k = "getitem" THEN UpdateTupleGetItem(m, sinfo, base, increment)
  ELSE Fatal(m, "not a leaf node")

\* the loop of UpdateExprMap over the fields of a tuple base; reading a field
\* the increment does not have is Array::operator[]'s index check
UpdateFields(m, sinfo, fields, incs, i) ==
  IF m.err # "" \/ i > Len(fields) THEN m
  ELSE IF i > Len(incs) THEN Fatal(m, "IndexError")
  ELSE UpdateFields(UpdateExprMap(m, sinfo, fields[i], incs[i]), sinfo, fields, incs, i + 1)

\* what BindAndEmit binds v to
BoundValue(m, e) ==
  IF e \in DOMAIN m.adjoint_binding_ THEN m.adjoint_binding_[e] ELSE e

\* EmitBinding with the binding inserted in front of the block
EmitBindingInFront(m, v, e) ==
  [m EXCEPT !.emitted = <<[var |-> v, value |-> e, output |-> ~v.df]>> \o @]

\* builder_->Emit / builder_->EmitOutput of VarBinding(v, e)
EmitBinding(m, v, e) ==
  [m EXCEPT !.emitted = Append(@, [var |-> v, value |-> e, output |-> ~v.df])]

\* BindAndEmit emitting the output bindings only: the binding of a dataflow
\* variable is recorded in adjoint_binding_ and not emitted
BindAndEmitOutput(m, v, e) ==
  LET m1 == IF e \in DOMAIN m.adjoint_binding_ THEN m
            ELSE [m EXCEPT !.adjoint_binding_ = MapSet(@, e, v)]
  IN IF m.err # "" THEN m
     ELSE IF v.df THEN m1
     ELSE EmitBinding(m1, v, BoundValue(m, e))

\* void BindAndEmit(Var v, Expr e)
BindAndEmit(m, v, e) ==
  IF m.err # "" THEN m
  ELSE IF e \in DOMAIN m.adjoint_binding_
    THEN EmitBinding(m, v, BoundValue(m, e))
    ELSE EmitBinding([m EXCEPT !.adjoint_binding_ = MapSet(@, e, v)], v, e)

\* CheckTarget without the check of the number of dimensions
CheckTargetAnyRank(e, sinfo) ==
  IF e.df THEN "not an output node"
  ELSE IF sinfo.k # "tensor" THEN "target must be a DynTensorType"
  ELSE IF ~sinfo.known THEN "error when getting target shape"
  ELSE ""

\* CheckTarget without the check of the kind of the variable
CheckTargetAnyVar(e, sinfo) ==
  IF sinfo.k # "tensor" THEN "target must be a DynTensorType"
  ELSE IF ~sinfo.known THEN "error when getting target shape"
  ELSE IF sinfo.ndim # 0 THEN "target must be a scalar"
  ELSE ""

\* void CheckTarget(const Expr& e): the failed check, "" if none
CheckTarget(e, sinfo) ==
  IF e.df THEN "not an output node"
  ELSE IF sinfo.k # "tensor" THEN "target must be a DynTensorType"
  ELSE IF ~sinfo.known THEN "error when getting target shape"
  ELSE IF sinfo.ndim # 0 THEN "target must be a scalar"
  ELSE ""

\* void InitGrad(const Var& adjoint_var, const Var& var)
InitGrad(m, var, sinfo) ==
  [m EXCEPT !.adjoint_expr_map = MapSet(@, var.name, Call("ones", <<m.nid>>, <<>>, sinfo)),
            !.nid = @ + 1]

\* The primitive gradient registry, gradient_op_map[op](call, adjoint_var):
\* one partial per argument for the registered operators; "half" stands for
\* an operator whose gradient returns one partial too few, "nograd" for an
\* operator without a registered gradient.
OpsWithGradient == {"sum", "add", "half"}

Partial(call, adjoint_var, id, i) ==
  Call(call.op \o "_grad", Append(id, i), <<adjoint_var>> \o call.args, NoType)

Gradient(call, adjoint_var, id) ==
  LET n == IF call.op = "half" THEN Len(call.args) - 1 ELSE Len(call.args)
  IN [i \in 1..n |-> Partial(call, adjoint_var, id, i)]

\* the loop of ReverseVisit over the partials of a call
RECURSIVE UpdatePartials(_, _, _, _, _)
UpdatePartials(m, sinfo, args, partials, i) ==
  IF m.err # "" \/ i > Len(partials) THEN m
  ELSE IF args[i].k # "var" THEN Fatal(m, "Check failed: arg != nullptr")
  ELSE UpdatePartials(UpdateExprMap(m, sinfo, args[i], partials[i]),
                      sinfo, args, partials, i + 1)

\* back propagation part of ReverseVisit
BackPropagate(m, sinfo, binding, adjoint_var) ==
  LET value == binding.value
      adjoint_expr == m.adjoint_expr_map[binding.var.name]
  IN IF value.k \in {"tuple", "getitem", "var"}
       THEN UpdateExprMap(m, sinfo, value, adjoint_expr)
     ELSE IF value.k = "call" THEN
       IF value.op \notin OpsWithGradient THEN Fatal(m, "no FPrimalGradient for the operator")
       ELSE LET partials == Gradient(value, adjoint_var, <<m.nid>>)
            IN IF Len(partials) # Len(value.args)
                 THEN Fatal(m, "partials number != inputs number")
                 ELSE UpdatePartials([m EXCEPT !.nid = @ + 1], sinfo, value.args, partials, 1)
     ELSE Fatal(m, "AD does not support this type of binding value now")

\* ReverseVisit going to the back propagation without "meet a def"
ReverseVisitSkipEmit(m, sinfo, binding, target_var) ==
  LET m1 == CreateAdjointVar(m, binding.var, TRUE)
      adjoint_var == m1.adjoint_var_map[binding.var.name]
      seeded == binding.var.name \in DOMAIN m1.adjoint_expr_map
      m2 == IF seeded THEN m1 ELSE InitGrad(m1, binding.var, sinfo[binding.var.name])
  IN IF ~seeded /\ binding.var # target_var THEN m1
     ELSE BackPropagate(m2, sinfo, binding, adjoint_var)

\* void ReverseVisit(const VarBindingNode* binding)
ReverseVisit(m, sinfo, binding, target_var) ==
  LET m1 == CreateAdjointVar(m, binding.var, TRUE)
      adjoint_var == m1.adjoint_var_map[binding.var.name]
      seeded == binding.var.name \in DOMAIN m1.adjoint_expr_map
      m2 == IF seeded THEN m1 ELSE InitGrad(m1, binding.var, sinfo[binding.var.name])
  IN IF ~seeded /\ binding.var # target_var THEN m1
     ELSE BackPropagate(BindAndEmit(m2, adjoint_var, m2.adjoint_expr_map[binding.var.name]),
                        sinfo, binding, adjoint_var)

\* ------------------------------------------------------------------------
\* Inputs of a pass call.
ParamName(i) == "p" \o ToString(i)

BindName(i) == "v" \o ToString(i)

\* the right-hand sides a well-typed binding can have over the variables in
\* scope (env: sequence of [var, ty]), each with its struct info
RhsChoices(env) ==
  LET E == {env[i] : i \in 1..Len(env)}
      tensors == {e \in E : e.ty.k = "tensor"}
      tuples == {e \in E : e.ty.k = "tuple"}
  IN {[value |-> e.var, ty |-> e.ty, isVarBinding |-> TRUE] : e \in E}
     \cup UNION {{[value |-> TupleGetItem(e.var, j - 1), ty |-> e.ty.fields[j],
                   isVarBinding |-> TRUE] : j \in 1..Len(e.ty.fields)} : e \in tuples}
     \cup {[value |-> Call("sum", <<>>, <<e.var>>, NoType), ty |-> ScalarT,
            isVarBinding |-> TRUE] : e \in tensors}
     \cup {[value |-> Call("add", <<>>, <<e.a.var, e.b.var>>, NoType), ty |-> e.a.ty,
            isVarBinding |-> TRUE] :
             e \in {x \in [a : tensors, b : tensors] : x.a.ty = x.b.ty}}
     \cup {[value |-> Tuple(<<>>, <<e.a.var, e.b.var>>),
            ty |-> TupleType(<<e.a.ty, e.b.ty>>), isVarBinding |-> TRUE] :
             e \in [a : tensors, b : tensors]}

\* bindings the pass does not support or skips: a constant value, a call
\* with a non-variable argument, a call of an operator whose gradient breaks
\* the registry contract or is missing, and a MatchShape binding
OtherChoices(env) ==
  LET E == {env[i] : i \in 1..Len(env)}
  IN {[value |-> Constant, ty |-> ScalarT, isVarBinding |-> TRUE]}
     \cup {[value |-> Call("sum", <<>>, <<Constant>>, NoType), ty |-> ScalarT,
            isVarBinding |-> TRUE]}
     \cup {[value |-> Call(op, <<>>, <<e.var, e.var>>, NoType), ty |-> ScalarT,
            isVarBinding |-> TRUE] : op \in {"half", "nograd"}, e \in E}
     \cup {[value |-> e.var, ty |-> e.ty, isVarBinding |-> FALSE] : e \in E}

\* all regions of at most n further bindings: a region is [bindings, env];
\* every bound variable starts as a DataflowVar.  With any = FALSE only the
\* well-typed supported bindings are used.
RECURSIVE Regions(_, _, _)
Regions(r, n, any) ==
  IF n = 0 THEN {r}
  ELSE {r} \cup UNION {
         Regions([bindings |-> Append(r.bindings,
                                 [var |-> Var(BindName(Len(r.bindings) + 1), TRUE),
                                  value |-> c.value, isVarBinding |-> c.isVarBinding]),
                  env |-> Append(r.env,
                                 [var |-> Var(BindName(Len(r.bindings) + 1), TRUE),
                                  ty |-> c.ty])],
                 n - 1, any) :
           c \in RhsChoices(r.env) \cup (IF any THEN OtherChoices(r.env) ELSE {})}

\* the same expression with the variables named in outs turned into output
\* (non-dataflow) variables
RECURSIVE AsOutput(_, _)
AsOutput(e, outs) ==
  IF e.k = "var" THEN (IF e.name \in outs THEN Var(e.name, FALSE) ELSE e)
  ELSE [e EXCEPT !.args = [i \in 1..Len(e.args) |-> AsOutput(e.args[i], outs)]]

ParamEnv(types) ==
  [i \in 1..Len(types) |-> [var |-> Var(ParamName(i), FALSE), ty |-> types[i]]]

EmptyRegion(types) == [bindings |-> <<>>, env |-> ParamEnv(types)]

\* sequences over S of length at most n
RECURSIVE SeqsUpTo(_, _)
SeqsUpTo(S, n) ==
  IF n = 0 THEN {<<>>}
  ELSE LET shorter == SeqsUpTo(S, n - 1)
       IN shorter \cup {Append(q[1], q[2]) : q \in {t \in shorter : Len(t) = n - 1} \X S}

\* the module handed to the pass: the function "main" and a PrimFunc
CallerModule == [f \in {"main", "kernel"} |-> IF f = "main" THEN "Function" ELSE "PrimFunc"]

\* the dataflow block of a region
Block(region, outs, isDataflow) ==
  [dataflow |-> isDataflow,
   bindings |-> [i \in 1..Len(region.bindings) |->
                   [var |-> AsOutput(region.bindings[i].var, outs),
                    value |-> AsOutput(region.bindings[i].value, outs),
                    isVarBinding |-> region.bindings[i].isVarBinding]]]

\* An input: module mod, GlobalVar func, Function F (params, body) and the
\* requires-gradient list.  sinfo gives the struct info of every variable.
Input(region, isSeq, blocks, body, func, require_grads) ==
  [mod |-> CallerModule,
   func |-> func,
   params |-> [i \in 1..Len(region.env) - Len(region.bindings) |-> region.env[i].var],
   isSeqExpr |-> isSeq,
   blocks |-> blocks,
   body |-> body,
   sinfo |-> [n \in {region.env[i].var.name : i \in 1..Len(region.env)} |->
                (CHOOSE e \in {region.env[i] : i \in 1..Len(region.env)} : e.var.name = n).ty],
   require_grads |-> require_grads]

\* the last variable in scope: the last bound variable, or the last parameter
LastVar(region) == region.env[Len(region.env)].var

\* a function with one dataflow block returning its last variable, which is
\* an output variable
Plain(region, require_grads) ==
  LET outs == {LastVar(region).name}
  IN Input(region, TRUE, <<Block(region, outs, TRUE)>>, AsOutput(LastVar(region), outs),
           "main", require_grads)

\* (a) every well-typed region of at most MaxBindings bindings over one
\*     parameter, differentiated with respect to all inputs
RegionInputs ==
  {Plain(r, <<>>) :
     r \in UNION {Regions(EmptyRegion(<<ty>>), MaxBindings, FALSE) :
                    ty \in {ScalarT, PairT, NestedT}}}

ParamLists == SeqsUpTo({ScalarT, MatrixT, PairT}, MaxParams) \ {<<>>}

\* (b) every requires-gradient list of at most MaxG variables (parameters,
\*     in any order and with repetitions, or a variable that is no parameter
\*     of F) for the functions of at most one binding
SelectionInputs ==
  UNION {UNION {{Plain(r, g) :
                   g \in SeqsUpTo({r.env[i].var : i \in 1..Len(types)}
                                    \cup {Var("q", FALSE)}, MaxG)} :
                  r \in Regions(EmptyRegion(types), 1, FALSE)} :
           types \in ParamLists}

\* (c) malformed and unsupported inputs: the variations of a function body,
\*     of its terminator and of the looked-up global
Variations(r) ==
  LET last == LastVar(r)
      outs == {last.name}
      blk == Block(r, outs, TRUE)
      out == AsOutput(last, outs)
  IN {Plain(r, <<>>),
      Input(r, FALSE, <<blk>>, out, "main", <<>>),
      Input(r, TRUE, <<>>, out, "main", <<>>),
      Input(r, TRUE, <<blk, blk>>, out, "main", <<>>),
      Input(r, TRUE, <<Block(r, outs, FALSE)>>, out, "main", <<>>),
      Input(r, TRUE, <<blk>>, Tuple(<<>>, <<out>>), "main", <<>>),
      Input(r, TRUE, <<Block(r, {}, TRUE)>>, last, "main", <<>>),
      Input(r, TRUE, <<blk>>, r.env[1].var, "main", <<>>),
      Input(r, TRUE, <<blk>>, out, "kernel", <<>>),
      Input(r, TRUE, <<blk>>, out, "absent", <<>>)}

ShapeInputs ==
  UNION {Variations(r) :
           r \in UNION {Regions(EmptyRegion(<<ty>>), MaxBindings - 1, TRUE) :
                          ty \in {ScalarT, MatrixT, UnknownT, PairT}}}

Inputs == RegionInputs \cup SelectionInputs \cup ShapeInputs

\* ------------------------------------------------------------------------
\* The pass call.
VARIABLES
  inp,               \* the input of the call (never changes)
  pc,                \* the phase the call is in
  i,                 \* the index of the running loop
  module_heap,       \* the IRModule nodes: [functions, refs]; node 1 is the caller's
  new_module,        \* the node SimpleAD works on (0: none yet)
  result,            \* the node SimpleAD returned (0: nothing returned)
  target_var,
  adjoint_var_map,
  adjoint_expr_map,
  adjoint_binding_,
  zeros_tracker_,
  emitted,           \* the bindings the block builder received, in order
  out_adjoints,
  ret,               \* the body of the new function's SeqExpr
  nid,               \* allocation counter
  err,               \* the message of the fatal error
  log                \* history of the accumulation steps

vars == <<inp, pc, i, module_heap, new_module, result, target_var, adjoint_var_map,
          adjoint_expr_map, adjoint_binding_, zeros_tracker_, emitted, out_adjoints,
          ret, nid, err, log>>

callVars == <<module_heap, new_module, result>>

\* the SimpleADMutator as one record: the members of the class, the bindings
\* the block builder has received, the allocation counter, the pending error
\* and the history of the accumulation steps; and its write-back
Mut ==
  [adjoint_var_map |-> adjoint_var_map,
   adjoint_expr_map |-> adjoint_expr_map,
   adjoint_binding_ |-> adjoint_binding_,
   zeros_tracker_ |-> zeros_tracker_,
   emitted |-> emitted,
   nid |-> nid,
   err |-> err,
   log |-> log]

SetMut(m) ==
  /\ adjoint_var_map' = m.adjoint_var_map
  /\ adjoint_expr_map' = m.adjoint_expr_map
  /\ adjoint_binding_' = m.adjoint_binding_
  /\ zeros_tracker_' = m.zeros_tracker_
  /\ emitted' = m.emitted
  /\ nid' = m.nid
  /\ err' = m.err
  /\ log' = m.log

Range(s) == {s[j] : j \in 1..Len(s)}

Bindings == inp.blocks[1].bindings

FunctionEntry(name) == [kind |-> "Function", global_symbol |-> name]

\* m.CopyOnWrite() on node h: the node itself when the reference is unique,
\* a copy of it otherwise
CopyOnWrite(heap, h) ==
  IF heap[h].refs = 1 THEN [heap |-> heap, node |-> h]
  ELSE [heap |-> Append(heap, [functions |-> heap[h].functions, refs |-> 1]),
        node |-> Len(heap) + 1]

\* the end of the life of the by-value parameter m of SimpleAD
Release(heap, h) == [heap EXCEPT ![h].refs = @ - 1]

\* the checks of SimpleAD before the module is copied: the failed one, or ""
LookupError(in) ==
  IF in.func \notin DOMAIN in.mod THEN "there is no definition of the global"
  ELSE IF in.mod[in.func] # "Function" THEN "relax function not found"
  ELSE IF \E j \in 1..Len(in.require_grads) : in.require_grads[j] \notin Range(in.params)
    THEN "function has no var named"
  ELSE ""

\* the fatal error msg ends the call: the stack unwinds, nothing is returned
Abort(msg) ==
  /\ pc' = "fatal"
  /\ err' = msg
  /\ module_heap' = Release(module_heap, 1)
  /\ UNCHANGED <<inp, i, new_module, result, target_var, adjoint_var_map, adjoint_expr_map,
                 adjoint_binding_, zeros_tracker_, emitted, out_adjoints, ret, nid, log>>

\* Selected with the search stopping at the first element of require_grads
SelectedFirstOnly(require_grads, param) ==
  require_grads = <<>> \/ param = require_grads[1]

\* is params[j] selected for gradient (the test of both loops over the inputs)
Selected(require_grads, param) ==
  require_grads = <<>> \/ param \in Range(require_grads)

\* The call starts with two references to the caller's module: the caller's
\* own and the by-value parameter m of SimpleAD.
Init ==
  /\ inp \in Inputs
  /\ pc = "SimpleAD"
  /\ i = 0
  /\ module_heap = <<[functions |-> [f \in DOMAIN inp.mod |->
                                       [kind |-> inp.mod[f], global_symbol |-> f]],
                      refs |-> 2]>>
  /\ new_module = 0
  /\ result = 0
  /\ target_var = NoExpr
  /\ adjoint_var_map = EmptyMap
  /\ adjoint_expr_map = EmptyMap
  /\ adjoint_binding_ = EmptyMap
  /\ zeros_tracker_ = {}
  /\ emitted = <<>>
  /\ out_adjoints = <<>>
  /\ ret = NoExpr
  /\ nid = 1
  /\ err = ""
  /\ log = <<>>

\* SimpleAD, up to the construction of the mutator
SimpleADEntry ==
  /\ pc = "SimpleAD"
  /\ IF LookupError(inp) # "" THEN Abort(LookupError(inp))
     ELSE LET c == CopyOnWrite(module_heap, 1)
          IN /\ module_heap' = c.heap
             /\ new_module' = c.node
             /\ pc' = "FuncTransform"
             /\ UNCHANGED <<inp, i, result, target_var, adjoint_var_map, adjoint_expr_map,
                            adjoint_binding_, zeros_tracker_, emitted, out_adjoints, ret,
                            nid, err, log>>

\* FuncTransform: the checks on the body, BeginDataflowBlock
BeginTransform ==
  /\ pc = "FuncTransform"
  /\ IF ~inp.isSeqExpr THEN Abort("Check failed: body is SeqExpr")
     ELSE IF Len(inp.blocks) # 1 THEN Abort("Check failed: blocks.size() == 1")
     ELSE IF ~inp.blocks[1].dataflow THEN Abort("Check failed: block is DataflowBlock")
     ELSE /\ pc' = "forward"
          /\ i' = 1
          /\ UNCHANGED <<inp, callVars, target_var, adjoint_var_map, adjoint_expr_map,
                         adjoint_binding_, zeros_tracker_, emitted, out_adjoints, ret,
                         nid, err, log>>

\* FuncTransform: VisitBinding(binding) of the forward loop
VisitBinding ==
  /\ pc = "forward"
  /\ i <= Len(Bindings)
  /\ SetMut(EmitBinding(Mut, Bindings[i].var, Bindings[i].value))
  /\ i' = i + 1
  /\ UNCHANGED <<inp, pc, callVars, target_var, out_adjoints, ret>>

\* the loop "create adjoint var for inputs"
RECURSIVE CreateInputAdjointVars(_, _, _, _)
CreateInputAdjointVars(m, params, require_grads, j) ==
  IF j > Len(params) THEN m
  ELSE CreateInputAdjointVars(
         CreateAdjointVar(m, params[j], ~Selected(require_grads, params[j])),
         params, require_grads, j + 1)

CreateInputAdjoints ==
  /\ pc = "forward"
  /\ i > Len(Bindings)
  /\ SetMut(CreateInputAdjointVars(Mut, inp.params, inp.require_grads, 1))
  /\ pc' = "target"
  /\ UNCHANGED <<inp, i, callVars, target_var, out_adjoints, ret>>

\* FuncTransform: the return value of the function is the target
SelectTarget ==
  /\ pc = "target"
  /\ IF inp.body.k # "var" THEN Abort("the body of the function is not a relax.Var")
     ELSE IF CheckTarget(inp.body, inp.sinfo[inp.body.name]) # ""
       THEN Abort(CheckTarget(inp.body, inp.sinfo[inp.body.name]))
     ELSE /\ target_var' = inp.body
          /\ pc' = "reverse"
          /\ i' = Len(Bindings)
          /\ UNCHANGED <<inp, callVars, adjoint_var_map, adjoint_expr_map,
                         adjoint_binding_, zeros_tracker_, emitted, out_adjoints, ret,
                         nid, err, log>>

\* FuncTransform: one iteration of the reverse-mode loop
ReverseStep ==
  /\ pc = "reverse"
  /\ i >= 1
  /\ LET m == IF Bindings[i].isVarBinding
                THEN ReverseVisit(Mut, inp.sinfo, Bindings[i], target_var)
                ELSE Mut
     IN /\ SetMut(m)
        /\ pc' = IF m.err # "" THEN "fatal" ELSE pc
        /\ module_heap' = IF m.err # "" THEN Release(module_heap, 1) ELSE module_heap
  /\ i' = i - 1
  /\ UNCHANGED <<inp, new_module, result, target_var, out_adjoints, ret>>

\* FuncTransform: "handle the return values and types"
BeginReturn ==
  /\ pc = "reverse"
  /\ i = 0
  /\ pc' = "inputs"
  /\ i' = 1
  /\ out_adjoints' = <<>>
  /\ UNCHANGED <<inp, callVars, target_var, adjoint_var_map, adjoint_expr_map,
                 adjoint_binding_, zeros_tracker_, emitted, ret, nid, err, log>>

\* EmitAdjointOf binding the default zero only: the accumulated adjoint of a
\* touched input is left unbound
EmitAdjointOfUntouched(m, sinfo, param) ==
  LET adjoint_var == m.adjoint_var_map[param.name] IN
  IF param.name \in DOMAIN m.adjoint_expr_map THEN m
  ELSE IF sinfo.k # "tensor" THEN Fatal(m, "Downcast to DynTensorType failed")
  ELSE BindAndEmit([m EXCEPT !.nid = @ + 1], adjoint_var,
                   Call("zeros", <<m.nid>>, <<>>, sinfo))

\* the body of the loop "emit the input adjoints" for one selected parameter
EmitAdjointOf(m, sinfo, param) ==
  LET adjoint_var == m.adjoint_var_map[param.name] IN
  IF param.name \in DOMAIN m.adjoint_expr_map
    THEN BindAndEmit(m, adjoint_var, m.adjoint_expr_map[param.name])
  ELSE IF sinfo.k # "tensor" THEN Fatal(m, "Downcast to DynTensorType failed")
  ELSE BindAndEmit([m EXCEPT !.nid = @ + 1], adjoint_var,
                   Call("zeros", <<m.nid>>, <<>>, sinfo))

\* FuncTransform: one iteration of the loop "emit the input adjoints"
EmitInputAdjoint ==
  /\ pc = "inputs"
  /\ i <= Len(inp.params)
  /\ LET param == inp.params[i]
         sel == Selected(inp.require_grads, param)
         m == IF sel THEN EmitAdjointOf(Mut, inp.sinfo[param.name], param) ELSE Mut
     IN /\ SetMut(m)
        /\ pc' = IF m.err # "" THEN "fatal" ELSE pc
        /\ module_heap' = IF m.err # "" THEN Release(module_heap, 1) ELSE module_heap
        /\ out_adjoints' = IF sel /\ m.err = ""
                             THEN Append(out_adjoints, adjoint_var_map[param.name])
                             ELSE out_adjoints
  /\ i' = i + 1
  /\ UNCHANGED <<inp, new_module, result, target_var, ret>>

\* ReturnExpr with the adjoints pushed into out_expr one by one
ReturnExprFlat(body, adjoints, id) == Tuple(<<id>>, <<body>> \o adjoints)

\* the return expression Tuple(out_expr) of the new function
ReturnExpr(body, adjoints, id) == Tuple(<<id>>, <<body, Tuple(<<id + 1>>, adjoints)>>)

\* AddAdjoint on the module SimpleAD was called with (m->Add)
AddAdjointToInput(heap, node, func) ==
  [heap EXCEPT ![1].functions =
     MapSet(@, func \o "_adjoint", FunctionEntry(func \o "_adjoint"))]

\* IRModuleNode::Add of the function f_after under the new GlobalVar
AddAdjoint(heap, node, func) ==
  [heap EXCEPT ![node].functions =
     MapSet(@, func \o "_adjoint", FunctionEntry(func \o "_adjoint"))]

\* FuncTransform: assembling the function; SimpleAD: WithAttr, Add and return
Finish ==
  /\ pc = "inputs"
  /\ i > Len(inp.params)
  /\ ret' = ReturnExpr(inp.body, out_adjoints, nid)
  /\ nid' = nid + 2
  /\ module_heap' = Release(AddAdjoint(module_heap, new_module, inp.func), 1)
  /\ result' = new_module
  /\ pc' = "done"
  /\ UNCHANGED <<inp, i, new_module, target_var, adjoint_var_map, adjoint_expr_map,
                 adjoint_binding_, zeros_tracker_, emitted, out_adjoints, err, log>>

Next ==
  \/ SimpleADEntry
  \/ BeginTransform
  \/ VisitBinding
  \/ CreateInputAdjoints
  \/ SelectTarget
  \/ ReverseStep
  \/ BeginReturn
  \/ EmitInputAdjoint
  \/ Finish

Spec == Init /\ [][Next]_vars

\* ------------------------------------------------------------------------
\* Properties.
G == inp.require_grads

\* the adjoint tuple of the returned pair
ReturnedAdjoints == ret.args[2].args

AdjointOf(v) == adjoint_var_map[v.name]

\* the parameters named in G (all of them for an empty G), in parameter order
RECURSIVE ParamsIn(_, _, _)
ParamsIn(params, names, j) ==
  IF j > Len(params) THEN <<>>
  ELSE (IF names = {} \/ params[j].name \in names THEN <<params[j]>> ELSE <<>>)
       \o ParamsIn(params, names, j + 1)

GNames == {G[j].name : j \in 1..Len(G)}

\* C1 (as claimed): on success, for a list G without repetition, the i-th
\* element of the adjoint tuple is the adjoint variable of the i-th element
\* of G, in the order of G; for an empty G it is the adjoint of the i-th
\* parameter.
C1_OrderOfG ==
  (pc = "done" /\ Cardinality(GNames) = Len(G)) =>
    LET want == IF G # <<>> THEN G ELSE inp.params
    IN ReturnedAdjoints = [j \in 1..Len(want) |-> AdjointOf(want[j])]

\* C1 (amended): on success the adjoint tuple lists the adjoint variables of
\* the parameters named in G (of all parameters for an empty G) in the order
\* of the parameter list, whatever the order of G.
C1_OrderOfParams ==
  pc = "done" =>
    LET want == ParamsIn(inp.params, GNames, 1)
    IN ReturnedAdjoints = [j \in 1..Len(want) |-> AdjointOf(want[j])]

C1_Witness ==
  /\ pc = "done"
  /\ Len(G) = 2
  /\ Len(inp.params) = 2
  /\ G[1] = inp.params[2]
  /\ G[2] = inp.params[1]

\* C2 (as claimed): on success the returned value is a pair (original return
\* value, adjoint tuple) and the tuple has |G| elements for a non-empty G,
\* repetitions counted, and |params(F)| elements for an empty G.
C2_LengthOfG ==
  pc = "done" =>
    /\ ret.k = "tuple" /\ Len(ret.args) = 2
    /\ ret.args[1] = inp.body
    /\ ret.args[2].k = "tuple"
    /\ Len(ReturnedAdjoints) = IF G # <<>> THEN Len(G) ELSE Len(inp.params)

\* C2 (amended): on success the returned value is a pair (original return
\* value, adjoint tuple) and the tuple has one element per distinct parameter
\* named in G, and |params(F)| elements for an empty G.
C2_LengthOfDistinctG ==
  pc = "done" =>
    /\ ret.k = "tuple" /\ Len(ret.args) = 2
    /\ ret.args[1] = inp.body
    /\ ret.args[2].k = "tuple"
    /\ Len(ReturnedAdjoints) = IF G # <<>> THEN Cardinality(GNames) ELSE Len(inp.params)

C2_Witness ==
  /\ pc = "done"
  /\ Len(G) = 2
  /\ G[1] = G[2]
  /\ Len(ReturnedAdjoints) = 1

\* the expression is a structural zero of struct info ty: zeros(shape, dtype)
\* for a tensor, a tuple literal of structural zeros for a tuple
RECURSIVE IsZerosOf(_, _)
IsZerosOf(e, ty) ==
  IF ty.k = "tuple"
    THEN /\ e.k = "tuple"
         /\ Len(e.args) = Len(ty.fields)
         /\ \A j \in 1..Len(ty.fields) : IsZerosOf(e.args[j], ty.fields[j])
    ELSE e.k = "call" /\ e.op = "zeros" /\ e.ty = ty

\* the input-adjoint loop is past parameter j
Finalized(j) == (pc = "inputs" /\ j < i) \/ pc = "done"

\* C3 (as claimed): every requires-gradient input without an AdjExpr entry at
\* finalization gets an adjoint binding whose value is the structural zero of
\* the input's struct info, for a tensor and for a (nested) tuple, and the
\* pass does not abort on such an input.
C3_UntouchedInputIsZero ==
  /\ err # "Downcast to DynTensorType failed"
  /\ \A j \in 1..Len(inp.params) :
       LET param == inp.params[j] IN
       (Finalized(j) /\ (G = <<>> \/ param.name \in GNames)
          /\ param.name \notin DOMAIN adjoint_expr_map)
       => \E b \in 1..Len(emitted) :
            /\ emitted[b].var = AdjointOf(param)
            /\ IsZerosOf(emitted[b].value, inp.sinfo[param.name])

\* C4 (as claimed): on success the adjoint of the target named by the
\* terminator, a bound variable or a parameter, was seeded with
\* ones(shape, dtype) of the target, and the seed is not in ZeroSet.
C4_TargetSeededWithOnes ==
  pc = "done" =>
    /\ target_var.name \in DOMAIN adjoint_expr_map
    /\ LET seed == adjoint_expr_map[target_var.name]
       IN /\ seed.k = "call" /\ seed.op = "ones"
          /\ seed.ty = inp.sinfo[target_var.name]
          /\ seed \notin zeros_tracker_
          /\ \E b \in 1..Len(emitted) :
               emitted[b].var = AdjointOf(target_var) /\ emitted[b].value = seed

\* the bindings of the source region ("block->bindings")
ForwardBindings == IF Len(inp.blocks) >= 1 THEN inp.blocks[1].bindings ELSE <<>>

\* emitted[b] is one of the re-emitted forward bindings
IsForward(b) == b <= Len(ForwardBindings)

\* emitted[b] binds a default zero: a zeros call made by FuncTransform itself
IsDefaultZero(b) ==
  /\ ~IsForward(b)
  /\ emitted[b].value.k = "call" /\ emitted[b].value.op = "zeros"
  /\ emitted[b].value \notin zeros_tracker_

\* emitted[b] binds the adjoint variable of parameter j
IsAdjointOfParam(b, j) ==
  /\ ~IsForward(b)
  /\ inp.params[j].name \in DOMAIN adjoint_var_map
  /\ emitted[b].var = AdjointOf(inp.params[j])

IsInputAdjoint(b) == \E j \in 1..Len(inp.params) : IsAdjointOfParam(b, j)

\* the forward bindings come first, in source order
ForwardFirst ==
  \A b \in 1..Len(emitted) :
    IsForward(b) => /\ emitted[b].var = ForwardBindings[b].var
                    /\ emitted[b].value = ForwardBindings[b].value

\* C5 (as claimed): the emitted region is the forward bindings in source
\* order, then every adjoint binding of an accumulated AdjExpr, then the
\* default-zero bindings: no default-zero binding precedes another adjoint
\* binding.
C5_DefaultZerosLast ==
  /\ ForwardFirst
  /\ \A a, b \in 1..Len(emitted) :
       (a < b /\ IsDefaultZero(a)) => IsDefaultZero(b)

\* C5 (amended): the emitted region is the forward bindings in source order,
\* then the adjoint bindings of the reverse walk, then the input-adjoint
\* bindings in parameter order, each either the accumulated AdjExpr or the
\* default zero: no input-adjoint binding precedes a reverse-walk binding,
\* and every default-zero binding is an input-adjoint binding.
C5_InputAdjointsLast ==
  /\ ForwardFirst
  /\ \A a, b \in 1..Len(emitted) :
       (a < b /\ IsInputAdjoint(a)) =>
         \E j, k \in 1..Len(inp.params) :
           j < k /\ IsAdjointOfParam(a, j) /\ IsAdjointOfParam(b, k)
  /\ \A b \in 1..Len(emitted) : IsDefaultZero(b) => IsInputAdjoint(b)

C5_Witness ==
  /\ pc = "done"
  /\ \E a, b \in 1..Len(emitted) :
       /\ a < b
       /\ IsDefaultZero(a)
       /\ ~IsDefaultZero(b)
       /\ \E c \in 1..Len(emitted) : ~IsForward(c) /\ ~IsInputAdjoint(c)

\* the functions of the module the pass was called with
InputFunctions == [f \in DOMAIN inp.mod |-> [kind |-> inp.mod[f], global_symbol |-> f]]

AdjointName == inp.func \o "_adjoint"

\* C6: the caller's module always holds exactly the functions it held before
\* the call; on success the result is another module, the input plus the one
\* function <F>_adjoint with that global symbol; on a fatal error nothing is
\* returned and no module holds a new function.
C6_InputModuleUnchanged ==
  /\ module_heap[1].functions = InputFunctions
  /\ pc = "done" =>
       /\ result \in 2..Len(module_heap)
       /\ module_heap[result].functions =
            MapSet(InputFunctions, AdjointName,
                   [kind |-> "Function", global_symbol |-> AdjointName])
       /\ AdjointName \notin DOMAIN InputFunctions
  /\ pc # "done" =>
       /\ result = 0
       /\ \A h \in 1..Len(module_heap) : module_heap[h].functions = InputFunctions

C6_Witness ==
  /\ pc = "done"
  /\ result = 2
  /\ DOMAIN module_heap[2].functions = {"main", "kernel", "main_adjoint"}
  /\ DOMAIN module_heap[1].functions = {"main", "kernel"}

\* the three preconditions of the pass on F
HasOneDataflowRegion == inp.isSeqExpr /\ Len(inp.blocks) = 1 /\ inp.blocks[1].dataflow

TerminatorIsVar == inp.body.k = "var"

TargetIsScalar == TerminatorIsVar /\ IsScalarTensor(inp.sinfo[inp.body.name])

PreconditionErrors ==
  {"Check failed: body is SeqExpr", "Check failed: blocks.size() == 1",
   "Check failed: block is DataflowBlock", "the body of the function is not a relax.Var",
   "target must be a DynTensorType", "error when getting target shape",
   "target must be a scalar"}

\* C7: when F's body is not exactly one dataflow region, or its terminator
\* is no variable reference, or that variable is no zero-dimensional tensor,
\* the pass never gets to the reverse walk: it ends in a fatal error and
\* only forward bindings were emitted; when the three hold, the call does
\* not fail on one of these checks.
C7_Preconditions ==
  /\ ~(HasOneDataflowRegion /\ TerminatorIsVar /\ TargetIsScalar) =>
       /\ pc \in {"SimpleAD", "FuncTransform", "forward", "target", "fatal"}
       /\ \A b \in 1..Len(emitted) : IsForward(b)
  /\ (HasOneDataflowRegion /\ TerminatorIsVar /\ TargetIsScalar) =>
       err \notin PreconditionErrors

C7_Witness ==
  /\ pc = "fatal"
  /\ err = "target must be a scalar"
  /\ HasOneDataflowRegion /\ TerminatorIsVar /\ ~TargetIsScalar
  /\ Len(emitted) = Len(ForwardBindings)
  /\ Len(emitted) > 0

\* x is e or a node below e
RECURSIVE Embeds(_, _)
Embeds(e, x) == e = x \/ \E j \in 1..Len(e.args) : Embeds(e.args[j], x)

\* C8 (as claimed): an accumulation step (first store, DoAdd, DoAddInTuple)
\* whose contribution e is already bound to a variable v stores a reference
\* to v and never e itself, also into a slot holding a zero sentinel and
\* into a field of a tuple adjoint.
C8_BoundContributionByReference ==
  \A n \in 1..Len(log) :
    log[n].var # NoExpr =>
      /\ Embeds(log[n].stored, log[n].var)
      /\ ~Embeds(log[n].stored, log[n].inc)

\* C8 (amended): for a contribution e already bound to a variable v, the
\* first store into an empty slot stores the reference v; DoAdd (directly or
\* from DoAddInTuple) into a slot s that is neither a zero sentinel nor a
\* tuple literal, e not being a zero sentinel itself, stores add(s, v); into
\* a slot holding a zero sentinel it stores e itself, not v.
C8_BoundContributionExceptIntoZero ==
  \A n \in 1..Len(log) :
    log[n].var # NoExpr =>
      /\ log[n].how = "first" => log[n].stored = log[n].var
      /\ (log[n].how # "first" /\ ~log[n].accZero /\ log[n].acc.k # "tuple"
            /\ log[n].inc \notin zeros_tracker_) =>
           /\ log[n].stored.k = "call" /\ log[n].stored.op = "add"
           /\ log[n].stored.args = <<log[n].acc, log[n].var>>
      /\ (log[n].how # "first" /\ log[n].accZero) => log[n].stored = log[n].inc

C8_Witness ==
  /\ \E n \in 1..Len(log) :
       log[n].var # NoExpr /\ log[n].how = "add" /\ ~log[n].accZero
  /\ \E n \in 1..Len(log) :
       log[n].var # NoExpr /\ log[n].how = "field" /\ log[n].accZero
  /\ \E n \in 1..Len(log) : log[n].var # NoExpr /\ log[n].how = "first"

\* e is a tuple literal with the arity and nesting of the tuple struct info
RECURSIVE MirrorsTuple(_, _)
MirrorsTuple(e, ty) ==
  /\ e.k = "tuple"
  /\ Len(e.args) = Len(ty.fields)
  /\ \A j \in 1..Len(ty.fields) :
       ty.fields[j].k = "tuple" => MirrorsTuple(e.args[j], ty.fields[j])

\* C9 (as claimed): at every point of the pass the AdjExpr entry of a
\* tuple-typed variable is a tuple literal with the arity and nesting of the
\* variable, never a variable reference or an add call.
C9_TupleAdjointIsLiteral ==
  \A v \in DOMAIN adjoint_expr_map :
    inp.sinfo[v].k = "tuple" => MirrorsTuple(adjoint_expr_map[v], inp.sinfo[v])

\* the variables bound in the source region
BoundVars == {ForwardBindings[b].var : b \in 1..Len(ForwardBindings)}

\* C10 (as claimed): the adjoint variable of a variable bound in the region
\* has the kind of its original variable, dataflow for an intermediate
\* variable and output for an output variable such as the target, and is
\* emitted as a binding of that kind.
C10_KindOfOriginal ==
  /\ \A x \in BoundVars :
       x.name \in DOMAIN adjoint_var_map => AdjointOf(x).df = x.df
  /\ \A b \in 1..Len(emitted), x \in BoundVars :
       (~IsForward(b) /\ x.name \in DOMAIN adjoint_var_map /\ emitted[b].var = AdjointOf(x))
         => emitted[b].output = ~x.df

\* C10 (amended): the adjoint variable of every variable bound in the region
\* is an intermediate (dataflow) variable, whatever the kind of the original,
\* the target included; the adjoint variable of an input parameter is an
\* output variable when the parameter is selected for gradient and an
\* intermediate variable otherwise; every adjoint binding is emitted with
\* the kind of its adjoint variable.
C10_KindOfAdjoint ==
  /\ \A b \in 1..Len(ForwardBindings) :
       ForwardBindings[b].var.name \in DOMAIN adjoint_var_map
         => AdjointOf(ForwardBindings[b].var).df
  /\ \A j \in 1..Len(inp.params) :
       inp.params[j].name \in DOMAIN adjoint_var_map
         => (AdjointOf(inp.params[j]).df <=> (G # <<>> /\ inp.params[j].name \notin GNames))
  /\ \A b \in 1..Len(emitted) : emitted[b].output = ~emitted[b].var.df

C10_Witness ==
  /\ pc = "done"
  /\ target_var \notin Range(inp.params)
  /\ ~target_var.df
  /\ \E b \in 1..Len(emitted) :
       ~IsForward(b) /\ emitted[b].var = AdjointOf(target_var) /\ ~emitted[b].output

\* the names of the variables bound by a VarBinding of the source region
VarBound ==
  {ForwardBindings[b].var.name :
     b \in {c \in 1..Len(ForwardBindings) : ForwardBindings[c].isVarBinding}}

ParamNames == {inp.params[j].name : j \in 1..Len(inp.params)}

\* the AdjExpr entry of x was passed to bind_and_emit: an adjoint binding of
\* x's adjoint variable to the entry (or to the variable the entry is bound
\* to) was emitted
Materialized(x) ==
  /\ x \in DOMAIN adjoint_var_map
  /\ x \in DOMAIN adjoint_expr_map
  /\ \E b \in 1..Len(emitted) :
       /\ ~IsForward(b)
       /\ emitted[b].var = adjoint_var_map[x]
       /\ \/ emitted[b].value = adjoint_expr_map[x]
          \/ /\ adjoint_expr_map[x] \in DOMAIN adjoint_binding_
             /\ emitted[b].value = adjoint_binding_[adjoint_expr_map[x]]

\* x is the name of a parameter selected for gradient
SelectedName(x) == G = <<>> \/ x \in GNames

\* C11 (as claimed): once return-shaping has run, every variable with an
\* AdjExpr entry, a variable bound in the region or an input parameter that
\* received contributions, selected for gradient or not, has had the entry
\* passed to bind_and_emit.
C11_EveryEntryEmitted ==
  pc = "done" =>
    \A x \in (VarBound \cup ParamNames) \cap DOMAIN adjoint_expr_map : Materialized(x)

\* C11 (amended): when the reverse walk is over, every variable bound by a
\* binding of the region that has an AdjExpr entry has had it passed to
\* bind_and_emit, and no entry of an input parameter has; when the pass
\* succeeds, the entry of an input parameter has been passed to
\* bind_and_emit exactly if the parameter is selected for gradient.
C11_SelectedEntriesEmitted ==
  /\ pc \in {"inputs", "done"} =>
       \A x \in VarBound \cap DOMAIN adjoint_expr_map : Materialized(x)
  /\ (pc = "inputs" /\ i = 1) => \A x \in ParamNames : ~Materialized(x)
  /\ pc = "done" =>
       \A x \in ParamNames \cap DOMAIN adjoint_expr_map :
         Materialized(x) <=> SelectedName(x)

C11_Witness ==
  /\ pc = "done"
  /\ \E x \in ParamNames \cap DOMAIN adjoint_expr_map : ~SelectedName(x) /\ ~Materialized(x)
  /\ \E x \in ParamNames \cap DOMAIN adjoint_expr_map : SelectedName(x) /\ Materialized(x)
  /\ \E x \in VarBound : Materialized(x)

\* every binding of the source region is a VarBinding
AllVarBindings ==
  \A b \in 1..Len(ForwardBindings) : ForwardBindings[b].isVarBinding

\* the emitted adjoint bindings of the adjoint variable of x
AdjointBindingsOf(x) ==
  {b \in 1..Len(emitted) :
     ~IsForward(b) /\ x \in DOMAIN adjoint_var_map /\ emitted[b].var = adjoint_var_map[x]}

\* the reverse-walk loop has ended
ReverseWalkOver == (pc = "reverse" /\ i = 0) \/ pc \in {"inputs", "done"}

RECURSIVE Nodes(_)
Nodes(e) == {e} \cup UNION {Nodes(e.args[j]) : j \in 1..Len(e.args)}

\* the expressions the pass holds: the accumulated adjoints, the values of
\* the emitted bindings and their sub-expressions
KnownExprs ==
  UNION {Nodes(adjoint_expr_map[x]) : x \in DOMAIN adjoint_expr_map}
    \cup UNION {Nodes(emitted[b].value) : b \in 1..Len(emitted)}

\* a node structurally equal to z with an identity of its own
CopyOf(z) == [z EXCEPT !.id = <<0>>]

\* C13 (as claimed): for every expression e and every zero sentinel z made
\* by BuildEmptyNestedTupleExpr, DoAdd(z, e) is the node e and DoAdd(e, z)
\* is the node e, e being any expression, another zero sentinel included.
C13_ZeroAbsorbedOnBothSides ==
  \A z \in zeros_tracker_, e \in KnownExprs :
    /\ DoAdd(Mut, z, e, <<nid>>) = e
    /\ DoAdd(Mut, e, z, <<nid>>) = e

\* C13 (amended): for every expression e and zero sentinel z, DoAdd(z, e)
\* is the node e; DoAdd(e, z) is the node e unless e is itself a zero
\* sentinel, and then it is the node z (rule 1 is tried first); a node that
\* is structurally equal to z but is not the node z is no zero: DoAdd builds
\* add(copy, e) and add(e, copy) for a tensor e that is no sentinel.
C13_ZeroAbsorbedByIdentity ==
  \A z \in zeros_tracker_, e \in KnownExprs :
    /\ DoAdd(Mut, z, e, <<nid>>) = e
    /\ e \notin zeros_tracker_ => DoAdd(Mut, e, z, <<nid>>) = e
    /\ e \in zeros_tracker_ => DoAdd(Mut, e, z, <<nid>>) = z
    /\ (e \notin zeros_tracker_ /\ e.k # "tuple") =>
         /\ DoAdd(Mut, CopyOf(z), e, <<nid>>)
              = Call("add", <<nid>>, <<CopyOf(z), BoundValue(Mut, e)>>, NoType)
         /\ DoAdd(Mut, e, CopyOf(z), <<nid>>)
              = Call("add", <<nid>>, <<e, CopyOf(z)>>, NoType)

\* the pass has added a contribution into a zero sentinel and a zero sentinel
\* into an accumulated adjoint, and holds two sentinels of the same shape
C13_Witness ==
  /\ \E n \in 1..Len(log) : log[n].accZero /\ log[n].stored = log[n].inc
  /\ \E n \in 1..Len(log) :
       log[n].how = "add" /\ log[n].inc \in zeros_tracker_ /\ log[n].stored = log[n].acc
  /\ \E z1, z2 \in zeros_tracker_ : z1 # z2 /\ CopyOf(z1) = CopyOf(z2)

\* e without the identities of its nodes: the structure of e
RECURSIVE Strip(_)
Strip(e) == [e EXCEPT !.id = <<>>, !.args = [j \in 1..Len(e.args) |-> Strip(e.args[j])]]

\* the steps of the history that accumulate into the variable named x itself
ContributionsTo(x) ==
  {n \in 1..Len(log) : log[n].base = x /\ log[n].how \in {"first", "add"}}

\* e is a partial returned by the gradient of an operator
IsPartial(e) == e.k = "call" /\ e.op \in {op \o "_grad" : op \in OpsWithGradient}

\* the add calls in e
AddNodes(e) == {n \in Nodes(e) : n.k = "call" /\ n.op = "add"}

\* every contribution to x so far is a partial, the same expression each time
SamePartialEachTime(x) ==
  /\ ContributionsTo(x) # {}
  /\ \A n, o \in ContributionsTo(x) :
       IsPartial(log[n].inc) /\ Strip(log[n].inc) = Strip(log[o].inc)

\* C14 (as claimed): a variable that has received k contributions, the same
\* partial expression each time, has an accumulated adjoint with exactly k-1
\* add nodes, in which the second and later occurrences of the partial are
\* references to a bound variable and not the partial expression again.
C14_RepeatedPartialByReference ==
  \A x \in DOMAIN adjoint_expr_map :
    SamePartialEachTime(x) =>
      /\ Cardinality(AddNodes(adjoint_expr_map[x])) = Cardinality(ContributionsTo(x)) - 1
      /\ \A n \in ContributionsTo(x) :
           log[n].how = "add" =>
             /\ log[n].stored.k = "call" /\ log[n].stored.op = "add"
             /\ log[n].stored.args[2].k = "var"
             /\ ~Embeds(adjoint_expr_map[x], log[n].inc)

\* the contribution to x before step n
Previous(x, n) ==
  LET before == {o \in ContributionsTo(x) : o < n}
  IN CHOOSE o \in before : \A q \in before : q <= o

\* C14 (amended): for a tensor variable that has received k contributions,
\* none of them a zero sentinel, the accumulation has built exactly k-1 add
\* nodes, one per contribution after the first, each add(accumulated so far,
\* contribution) and all of them in the accumulated adjoint; a contribution
\* appears as a reference to a bound variable only if it was already bound
\* when it was contributed, and a partial contributed by the visit of its own
\* call never is: it is embedded as the expression itself, the second time
\* too.
C14_OneAddPerContribution ==
  \A x \in DOMAIN adjoint_expr_map :
    (/\ inp.sinfo[x].k = "tensor"
     /\ ContributionsTo(x) # {}
     /\ \A n \in ContributionsTo(x) : log[n].inc \notin zeros_tracker_) =>
      LET adds == {log[n].stored : n \in {o \in ContributionsTo(x) : log[o].how = "add"}}
      IN /\ Cardinality(adds) = Cardinality(ContributionsTo(x)) - 1
         /\ adds \subseteq AddNodes(adjoint_expr_map[x])
         /\ \A n \in ContributionsTo(x) :
              LET c == IF log[n].var # NoExpr THEN log[n].var ELSE log[n].inc
              IN /\ log[n].how = "first" => log[n].stored = c
                 /\ log[n].how = "add" =>
                      /\ log[n].acc = log[Previous(x, n)].stored
                      /\ log[n].stored = Call("add", log[n].stored.id, <<log[n].acc, c>>, NoType)
                 /\ (IsPartial(log[n].inc) /\ \A o \in 1..(n - 1) : log[o].inc # log[n].inc)
                      => log[n].var = NoExpr
         /\ \E n \in ContributionsTo(x) :
              /\ \A o \in ContributionsTo(x) : o <= n
              /\ adjoint_expr_map[x] = log[n].stored

\* a finished pass in which a variable received the same partial twice, the
\* second embedded as the call it is, and another contribution was added as
\* the variable it was bound to
C14_Witness ==
  /\ pc = "done"
  /\ \E x \in DOMAIN adjoint_expr_map :
       /\ SamePartialEachTime(x)
       /\ Cardinality(ContributionsTo(x)) = 2
       /\ adjoint_expr_map[x].k = "call" /\ adjoint_expr_map[x].op = "add"
       /\ IsPartial(adjoint_expr_map[x].args[2])
  /\ \E n \in 1..Len(log) :
       /\ log[n].how = "add" /\ log[n].var # NoExpr
       /\ log[n].stored.k = "call" /\ log[n].stored.op = "add"
       /\ log[n].stored.args[2] = log[n].var

\* ------------------------------------------------------------------------
\* UpdateExprMap and DoAdd called on their own: one call per behaviour, on
\* operands drawn from the expressions a mutator can hold.
MaxFields == 2

\* a partial that is not bound, and the accumulated adjoint of an emitted
\* variable (bound to w_adjoint)
FreePartial == Call("sum_grad", <<1>>, <<Var("y_adjoint", TRUE), Var("a", TRUE)>>, NoType)

BoundPartial == Call("sum_grad", <<2>>, <<Var("w_adjoint", TRUE), Var("b", TRUE)>>, NoType)

\* a leaf made by BuildEmptyNestedTupleExpr, and a zeros call that was not
ZeroSentinel == Call("zeros", <<3>>, <<>>, ScalarT)

OtherZeros == Call("zeros", <<4>>, <<>>, ScalarT)

LeafOperands == {FreePartial, BoundPartial, ZeroSentinel, OtherZeros, Var("w_adjoint", TRUE)}

\* the tuple literals of at most n fields over the set S, each with its own identity
TupleOperands(S, n) ==
  {Tuple(<<5>>, fs) : fs \in SeqsUpTo(S, n) \ {<<>>}}

Operands == LeafOperands \cup TupleOperands(LeafOperands, MaxFields)

\* the tuple literals a binding can have as its value
TupleBases == TupleOperands({Var("a", TRUE), Var("b", TRUE)}, MaxFields)

\* the struct info of the variables of the bases
BaseInfo == [x \in {"a", "b"} |-> ScalarT]

\* a call: the function, its two arguments and the AdjExpr table it meets
CallInput(fn, a, b, entries) == [fn |-> fn, a |-> a, b |-> b, entries |-> entries]

CallInputs ==
  {CallInput("DoAdd", s1, s2, EmptyMap) : s1 \in Operands, s2 \in Operands}
    \cup {CallInput("UpdateExprMap", base, inc, entries) :
            base \in TupleBases, inc \in Operands,
            entries \in {EmptyMap, [x \in {"a"} |-> Var("w_adjoint", TRUE)]}}

\* the mutator the call meets: BoundPartial is bound to w_adjoint,
\* ZeroSentinel is tracked, the AdjExpr table is the one of the input
CallMut(in) ==
  [adjoint_var_map |-> EmptyMap,
   adjoint_expr_map |-> in.entries,
   adjoint_binding_ |-> [e \in {BoundPartial} |-> Var("w_adjoint", TRUE)],
   zeros_tracker_ |-> {ZeroSentinel},
   emitted |-> <<>>,
   nid |-> 6,
   err |-> "",
   log |-> <<>>]

InitCall ==
  /\ inp \in CallInputs
  /\ pc = "call"
  /\ i = 0
  /\ module_heap = <<>>
  /\ new_module = 0
  /\ result = 0
  /\ target_var = NoExpr
  /\ adjoint_var_map = EmptyMap
  /\ adjoint_expr_map = CallMut(inp).adjoint_expr_map
  /\ adjoint_binding_ = CallMut(inp).adjoint_binding_
  /\ zeros_tracker_ = CallMut(inp).zeros_tracker_
  /\ emitted = <<>>
  /\ out_adjoints = <<>>
  /\ ret = NoExpr
  /\ nid = CallMut(inp).nid
  /\ err = ""
  /\ log = <<>>

\* one call of DoAdd(src1, src2); ret is the expression it returns
CallDoAdd ==
  /\ pc = "call"
  /\ inp.fn = "DoAdd"
  /\ LET r == DoAdd(Mut, inp.a, inp.b, <<nid>>)
     IN IF r.k = "fatal"
          THEN pc' = "fatal" /\ err' = r.name /\ ret' = ret
          ELSE pc' = "returned" /\ err' = err /\ ret' = r
  /\ nid' = nid + 1
  /\ UNCHANGED <<inp, i, callVars, target_var, adjoint_var_map, adjoint_expr_map,
                 adjoint_binding_, zeros_tracker_, emitted, out_adjoints, log>>

\* one call of UpdateExprMap(base, increment)
CallUpdateExprMap ==
  /\ pc = "call"
  /\ inp.fn = "UpdateExprMap"
  /\ LET m == UpdateExprMap(Mut, BaseInfo, inp.a, inp.b)
     IN SetMut(m) /\ pc' = IF m.err # "" THEN "fatal" ELSE "returned"
  /\ UNCHANGED <<inp, i, callVars, target_var, out_adjoints, ret>>

NextCall == CallDoAdd \/ CallUpdateExprMap

SpecCall == InitCall /\ [][NextCall]_vars

\* the calls UpdateExprMap(b_j, increment_j) for the fields j, j+1, ... of
\* the base, one after the other
RECURSIVE Pairwise(_, _, _, _)
Pairwise(m, base, increment, j) ==
  IF j > Len(base.args) THEN m
  ELSE Pairwise(UpdateExprMap(m, BaseInfo, base.args[j], increment.args[j]),
                base, increment, j + 1)

\* a call of UpdateExprMap with a tuple-literal base has ended
UpdatedTupleBase == pc # "call" /\ inp.fn = "UpdateExprMap" /\ inp.a.k = "tuple"

\* C15 (as claimed): UpdateExprMap with a tuple-literal base of n fields is a
\* fatal error unless the increment is a tuple literal of exactly n fields;
\* when it is, the call does what the n calls UpdateExprMap(b_i, increment_i)
\* do and every field of the increment is accumulated.
C15_TupleBaseArityEnforced ==
  UpdatedTupleBase =>
    IF inp.b.k = "tuple" /\ Len(inp.b.args) = Len(inp.a.args)
      THEN /\ pc = "returned"
           /\ Mut = Pairwise(CallMut(inp), inp.a, inp.b, 1)
           /\ Len(log) = Len(inp.b.args)
           /\ \A j \in 1..Len(inp.b.args) :
                log[j].inc = inp.b.args[j] /\ log[j].base = inp.a.args[j].name
      ELSE pc = "fatal"

\* a call of DoAdd on two operands outside ZeroSet has ended
AddedNonZero ==
  /\ pc # "call" /\ inp.fn = "DoAdd"
  /\ inp.a \notin zeros_tracker_ /\ inp.b \notin zeros_tracker_

\* the variable e is bound to, e itself if it is not bound
InternOr(e) == IF e \in DOMAIN adjoint_binding_ THEN adjoint_binding_[e] ELSE e

\* the sum of two tensor expressions by the rules 1, 2 and 4 of DoAdd
TensorSum(s1, s2, id) ==
  IF s1 \in zeros_tracker_ THEN s2
  ELSE IF s2 \in zeros_tracker_ THEN s1
  ELSE Call("add", id, <<s1, InternOr(s2)>>, NoType)

\* DoAdd returned the tuple of the fieldwise sums
FieldwiseSum ==
  /\ pc = "returned"
  /\ ret.k = "tuple"
  /\ Len(ret.args) = Len(inp.a.args)
  /\ \A j \in 1..Len(inp.a.args) :
       ret.args[j] = TensorSum(inp.a.args[j], inp.b.args[j], <<nid - 1, j>>)

\* DoAdd returned add(s1, Intern[s2] ?? s2), s1 as it was passed
PlainSum ==
  /\ pc = "returned"
  /\ ret = Call("add", <<nid - 1>>, <<inp.a, InternOr(inp.b)>>, NoType)

\* C16 (as claimed): for operands outside ZeroSet, DoAdd returns the
\* fieldwise tuple when both are tuple literals (a fatal error if the arities
\* differ) and add(s1, Intern[s2] ?? s2) in every other case, also when
\* exactly one of the two is a tuple literal.
C16_AddUnlessBothTuples ==
  AddedNonZero =>
    IF inp.a.k = "tuple" /\ inp.b.k = "tuple"
      THEN IF Len(inp.a.args) # Len(inp.b.args) THEN pc = "fatal" ELSE FieldwiseSum
      ELSE PlainSum

\* C16 (amended): for operands outside ZeroSet, DoAdd returns the fieldwise
\* tuple when both are tuple literals (a fatal error if the arities differ),
\* is a fatal error when s1 is a tuple literal and s2 is not, and returns
\* add(s1, Intern[s2] ?? s2) whenever s1 is no tuple literal, s2 a tuple
\* literal or not; s1 is never replaced by the variable it is bound to.
C16_AddUnlessFirstIsTuple ==
  AddedNonZero =>
    IF inp.a.k = "tuple"
      THEN IF inp.b.k # "tuple"
             THEN pc = "fatal"
                  /\ err = "Type not match: src1 and src2 should be both tuple"
           ELSE IF Len(inp.a.args) # Len(inp.b.args)
             THEN pc = "fatal" /\ err = "size of tuple not match"
           ELSE FieldwiseSum
      ELSE PlainSum

\* DoAdd was called on a tuple literal and a bound tensor expression, both
\* outside ZeroSet, and ended in the fatal error
C16_Witness ==
  /\ AddedNonZero
  /\ pc = "fatal"
  /\ inp.a.k = "tuple"
  /\ inp.b = BoundPartial

\* the variables referenced by e
FreeVars(e) == {n \in Nodes(e) : n.k = "var"}

\* the variables in scope at position b of the emitted region
InScope(b) == Range(inp.params) \cup {emitted[a].var : a \in 1..(b - 1)}

\* the adjoint variables the pass has created
AdjointVars == {adjoint_var_map[x] : x \in DOMAIN adjoint_var_map}

\* C17: in the emitted region, complete or not, every variable referenced by
\* the right-hand side of an adjoint binding is an input parameter or the
\* variable of an earlier binding of the region; an adjoint variable and a
\* variable substituted from the intern table are referenced only after
\* their own binding, and no variable is bound twice.
C17_BoundBeforeUse ==
  /\ \A b \in 1..Len(emitted) :
       ~IsForward(b) => FreeVars(emitted[b].value) \subseteq InScope(b)
  /\ \A a, b \in 1..Len(emitted) : emitted[a].var = emitted[b].var => a = b

\* a finished region in which an adjoint binding refers to the adjoint
\* variable of an earlier adjoint binding, an accumulation has substituted a
\* variable from the intern table, and G names some of the parameters
C17_Witness ==
  /\ pc = "done"
  /\ \E b \in 1..Len(emitted) :
       ~IsForward(b) /\ FreeVars(emitted[b].value) \cap AdjointVars # {}
  /\ \E n \in 1..Len(log) : log[n].var # NoExpr /\ Embeds(log[n].stored, log[n].var)

\* the emitted adjoint binding of the variable v, 0 if there is none
BindingOf(v) ==
  LET bs == {b \in 1..Len(emitted) : ~IsForward(b) /\ emitted[b].var = v}
  IN IF bs = {} THEN 0 ELSE CHOOSE b \in bs : TRUE

\* What the expression e adds up, as a bag of <<field path, term>>: a zeros
\* call adds nothing, an add call adds what its operands add, a tuple
\* literal adds its fields in their places, a variable bound by an adjoint
\* binding stands for the expression it was bound to, and any other
\* expression is one term.
RECURSIVE Terms(_, _)
RECURSIVE TermsOfFields(_, _, _)
Terms(e, path) ==
  IF e.k = "call" /\ e.op = "zeros" THEN EmptyBag
  ELSE IF e.k = "call" /\ e.op = "add"
    THEN Terms(e.args[1], path) (+) Terms(e.args[2], path)
  ELSE IF e.k = "tuple" THEN TermsOfFields(e, path, 1)
  ELSE IF e.k = "var" /\ BindingOf(e) # 0 THEN Terms(emitted[BindingOf(e)].value, path)
  ELSE SetToBag({<<path, e>>})

TermsOfFields(e, path, j) ==
  IF j > Len(e.args) THEN EmptyBag
  ELSE Terms(e.args[j], Append(path, j)) (+) TermsOfFields(e, path, j + 1)

\* the contributions passed to UpdateExprMap for the variable named x, from
\* step n of the history on, each in the field it was addressed to
RECURSIVE Contributed(_, _)
Contributed(x, n) ==
  IF n > Len(log) THEN EmptyBag
  ELSE (IF log[n].base # x THEN EmptyBag
        ELSE Terms(log[n].inc, IF log[n].index >= 0 THEN <<log[n].index + 1>> ELSE <<>>))
       (+) Contributed(x, n + 1)

\* x names the target and the target is bound in the region
IsBoundTarget(x) == target_var # NoExpr /\ target_var.name = x /\ x \in VarBound

\* C18: whenever an adjoint binding of a variable v has been emitted, the
\* expression it binds, read with every adjoint variable standing for the
\* expression it was bound to and with the zeros dropped, is the sum of
\* exactly the contributions passed to UpdateExprMap for v, directly (also
\* as a field of a tuple construction) or through a projection into field k,
\* each of them once and in the field it was addressed to; the target bound
\* in the region received no contribution and is bound to its seed.
C18_NothingLostOrDuplicated ==
  \A x \in DOMAIN adjoint_var_map :
    BindingOf(adjoint_var_map[x]) # 0 =>
      LET value == emitted[BindingOf(adjoint_var_map[x])].value
      IN IF IsBoundTarget(x)
           THEN /\ value.k = "call" /\ value.op = "ones"
                /\ Contributed(x, 1) = EmptyBag
           ELSE Terms(value, <<>>) = Contributed(x, 1)

\* a finished pass in which a field of a tuple adjoint received two
\* contributions, the second as the variable it was bound to, and the tuple
\* adjoint was bound
C18_Witness ==
  /\ pc = "done"
  /\ \E n, o \in 1..Len(log) :
       /\ n < o /\ log[n].how = "field" /\ log[o].how = "field"
       /\ log[n].base = log[o].base /\ log[n].index = log[o].index
       /\ log[o].var # NoExpr /\ Embeds(log[o].stored, log[o].var)
       /\ BindingOf(adjoint_var_map[log[n].base]) # 0

\* v is bound by an output binding of the emitted region
OutputBound(v) ==
  \E b \in 1..Len(emitted) : emitted[b].var = v /\ emitted[b].output

\* C19: the pass goes past target selection only with a target that is no
\* dataflow variable (a dataflow terminator ends in the fatal error "not an
\* output node"); the adjoint variable of an input selected for gradient is
\* an output variable and that of any other input a dataflow variable; on
\* success every variable the return expression refers to is an output
\* variable, a parameter or bound by an output binding of the region, the
\* adjoints in it are exactly those of the selected inputs, each bound by an
\* output binding, and no adjoint of another input is in it.
C19_ReturnRefersToOutputs ==
  /\ pc \in {"reverse", "inputs", "done"} => ~inp.body.df
  /\ (pc = "fatal" /\ HasOneDataflowRegion /\ TerminatorIsVar /\ inp.body.df)
       => err = "not an output node"
  /\ \A j \in 1..Len(inp.params) :
       inp.params[j].name \in DOMAIN adjoint_var_map =>
         (AdjointOf(inp.params[j]).df <=> ~SelectedName(inp.params[j].name))
  /\ pc = "done" =>
       /\ \A v \in FreeVars(ret) :
            ~v.df /\ (v \in Range(inp.params) \/ OutputBound(v))
       /\ \A j \in 1..Len(inp.params) :
            LET adjoint == AdjointOf(inp.params[j])
            IN IF SelectedName(inp.params[j].name)
                 THEN adjoint \in FreeVars(ret) /\ OutputBound(adjoint)
                 ELSE adjoint \notin FreeVars(ret) /\ BindingOf(adjoint) = 0

\* a finished pass that returns a target bound in the region, the adjoint of
\* a selected input and not the adjoint of the other input
C19_Witness ==
  /\ pc = "done"
  /\ target_var \in BoundVars
  /\ \E j, k \in 1..Len(inp.params) :
       /\ SelectedName(inp.params[j].name) /\ ~SelectedName(inp.params[k].name)
       /\ ret.args = <<target_var, Tuple(ret.args[2].id, <<AdjointOf(inp.params[j])>>)>>

====
